---------------------------- MODULE Spec2Model ----------------------------
(***************************************************************************)
(* Model of the ranking-up leaderboard: the streaming top-K tracker        *)
(* Online::rankIncoming with its heap maintainer Online::replaceMin        *)
(* (src/Leaderboard.cpp) and the entity source VectorPlayerStream          *)
(* (src/PlayerStream.cpp).                                                 *)
(*                                                                         *)
(* A Player is a record [name, level].  Sequences are 1-based here, the    *)
(* code's vectors are 0-based: code index i is sequence index i + 1.       *)
(***************************************************************************)
EXTENDS Integers, Sequences, FiniteSets, TLC

(* ------------------------------ bounds -------------------------------- *)

MaxStream == 4      \* longest stream handed to rankIncoming
MaxLevel == 3       \* levels are drawn from 1..MaxLevel
MaxR == 3           \* reporting intervals are drawn from 0..MaxR
MaxHeap == 5        \* largest range handed to replaceMin on its own
MaxN == 11          \* largest collection handed to an Offline function
MaxOffLevel == 2    \* levels of those collections are drawn from 1..MaxOffLevel

Levels == 1..MaxLevel

\* What a read through front() of an empty vector may yield when it does
\* not trap: any size_t; two stand for them, one below every level and one
\* that no level exceeds.
Garbage == {0, MaxLevel}

(* ------------------------------ players ------------------------------- *)

\* The value of a default / out-of-scope Player local.
NoPlayer == [name |-> 0, level |-> 0]

\* Player::operator< and Player::operator> order players by level only.
PlayerLess(a, b) == a.level < b.level

PlayerGreater(a, b) == a.level > b.level

\* The players of a stream built from a sequence of levels; the i-th
\* player carries the name i, so every player of a stream is distinguishable.
MakePlayers(levels) == [i \in 1..Len(levels) |-> [name |-> i, level |-> levels[i]]]

LevelSeqs(n) == UNION {[1..k -> Levels] : k \in 0..n}

Streams == {MakePlayers(ls) : ls \in LevelSeqs(MaxStream)}

(* --------------------------- sequences -------------------------------- *)

Bijections(n) == {p \in [1..n -> 1..n] : \A i, j \in 1..n : p[i] = p[j] => i = j}

\* All rearrangements of a sequence.
Perms(s) == {[i \in 1..Len(s) |-> s[p[i]]] : p \in Bijections(Len(s))}

\* The same players, each as often, in s and t.
SamePlayers(s, t) ==
    /\ Len(s) = Len(t)
    /\ \A i \in 1..Len(s) :
          Cardinality({j \in 1..Len(s) : s[j] = s[i]})
              = Cardinality({j \in 1..Len(t) : t[j] = s[i]})

\* std::unordered_map<size_t, size_t> as a function on its key set.
EmptyMap == [k \in {} |-> 0]

MapPut(m, k, v) == [x \in (DOMAIN m) \cup {k} |-> IF x = k THEN v ELSE m[x]]

(* ----------------------------- heaps ---------------------------------- *)

\* std::is_heap(.., std::greater<Player>()): no parent is greater than a child.
IsMinHeap(h) ==
    \A i \in 0..(Len(h) - 1) :
        /\ (2 * i + 1 < Len(h) => ~PlayerGreater(h[i + 1], h[2 * i + 2]))
        /\ (2 * i + 2 < Len(h) => ~PlayerGreater(h[i + 1], h[2 * i + 3]))

\* std::is_heap(..) with the default operator<: no parent is less than a child.
IsMaxHeap(h) ==
    \A i \in 0..(Len(h) - 1) :
        /\ (2 * i + 1 < Len(h) => ~PlayerLess(h[i + 1], h[2 * i + 2]))
        /\ (2 * i + 2 < Len(h) => ~PlayerLess(h[i + 1], h[2 * i + 3]))

\* MakeHeap with the comparator left out: a max-heap.
MakeHeapMax(s) == {h \in Perms(s) : IsMaxHeap(h)}

\* std::make_heap(first, last, std::greater<Player>()): some rearrangement
\* of the range that is a min-heap; which one is the library's choice.
MakeHeap(s) == {h \in Perms(s) : IsMinHeap(h)}

\* std::sort(first, last): some rearrangement in non-descending order of
\* operator<; the order of equivalent players is the library's choice.
Sort(s) == {t \in Perms(s) : \A i \in 1..(Len(s) - 1) : ~PlayerLess(t[i + 1], t[i])}

Swap(h, i, j) == [h EXCEPT ![i] = h[j], ![j] = h[i]]

\* SmallestIdx without the test of the right child.
SmallestIdxLeftOnly(h, index) ==
    IF 2 * index + 1 < Len(h) /\ PlayerLess(h[2 * index + 2], h[index + 1])
    THEN 2 * index + 1 ELSE index

\* The index the percolation moves to from index (0-based), or index itself.
SmallestIdx(h, index) ==
    LET heapSize == Len(h)
        leftChildIdx == 2 * index + 1
        rightChildIdx == 2 * index + 2
        afterLeft == IF leftChildIdx < heapSize
                        /\ PlayerLess(h[leftChildIdx + 1], h[index + 1])
                     THEN leftChildIdx ELSE index
    IN  IF rightChildIdx < heapSize
           /\ PlayerLess(h[rightChildIdx + 1], h[afterLeft + 1])
        THEN rightChildIdx ELSE afterLeft

RECURSIVE Percolate(_, _)
Percolate(h, index) ==
    LET smallestIdx == SmallestIdx(h, index)
    IN  IF smallestIdx = index THEN h
        ELSE Percolate(Swap(h, index + 1, smallestIdx + 1), smallestIdx)

\* ReplaceMin without the percolation.
ReplaceMinNoPercolate(h, target) ==
    IF Len(h) = 0 THEN h ELSE [h EXCEPT ![1] = target]

\* replaceMin that adds the target to the range where it should replace the root.
ReplaceMinAppends(h, target) == Append(h, target)

\* Online::replaceMin(first, last, target): the range afterwards.
ReplaceMin(h, target) ==
    IF Len(h) = 0 THEN h
    ELSE Percolate([h EXCEPT ![1] = target], 0)

\* What std::move may leave in target: the level is a scalar and stays, the
\* name is valid but unspecified (kept, or emptied).
MovedFrom(target) == {target, [name |-> 0, level |-> target.level]}

(* ------------------------------ state --------------------------------- *)

VARIABLES
    players_,             \* VectorPlayerStream::players_
    currentIndex_,        \* VectorPlayerStream::currentIndex_
    reporting_interval,   \* rankIncoming's parameter
    topPlayers,           \* rankIncoming's buffer; the range given to replaceMin
    cutoffs,              \* rankIncoming's local map
    playerCount,          \* rankIncoming's running count
    next,                 \* rankIncoming's local `next`; replaceMin's target
    pc,                   \* the position of the running call
    top_,                 \* RankingResult::top_ of the returned result
    cutoffs_,             \* RankingResult::cutoffs_ of the returned result
    error,                \* the exception that left the call, or "none"
    ub,                   \* the kinds of undefined behaviour executed so far
    lastOp,               \* the most recent call made on the stream
    lastRemaining,        \* what the most recent remaining() returned
    lastPlayer,           \* what the most recent successful nextPlayer() returned
    served,               \* number of successful nextPlayer() calls
    reportedZero,         \* some remaining() call has returned 0
    players,              \* the caller's vector given to an Offline function
    input,                \* that vector as it was when the caller built it
    hr_i,                 \* heapRank's loop counter i
    quickResult           \* the RankingResult quickSelectRank returned

streamVars == <<players_, currentIndex_>>

logVars == <<lastOp, lastRemaining, lastPlayer, served, reportedZero>>

rankVars == <<reporting_interval, topPlayers, cutoffs, playerCount, next, top_, cutoffs_, ub>>

offVars == <<players, input, hr_i, quickResult>>

vars == <<players_, currentIndex_, reporting_interval, topPlayers, cutoffs,
          playerCount, next, pc, top_, cutoffs_, error, ub, lastOp,
          lastRemaining, lastPlayer, served, reportedZero, players, input, hr_i,
          quickResult>>

\* No Offline function has been called.
OfflineIdle ==
    /\ players = << >>
    /\ input = << >>
    /\ hr_i = 0
    /\ quickResult = [top |-> << >>, cutoffs |-> EmptyMap]

(* ----------------------- VectorPlayerStream --------------------------- *)

\* VectorPlayerStream::remaining(): players_.size() - currentIndex_.
Remaining == Len(players_) - currentIndex_

\* The guard of the throw in VectorPlayerStream::nextPlayer().
Exhausted == currentIndex_ >= Len(players_)

\* A call of remaining() as seen by the caller: nothing of the stream changes.
CallRemaining ==
    /\ lastOp' = "remaining"
    /\ lastRemaining' = Remaining
    /\ reportedZero' = (reportedZero \/ Remaining = 0)
    /\ UNCHANGED <<streamVars, lastPlayer, served>>

\* NextPlayerReturns with the cursor left where it was.
NextPlayerReturnsStays ==
    /\ ~Exhausted
    /\ lastOp' = "nextPlayer"
    /\ lastPlayer' = players_[currentIndex_ + 1]
    /\ served' = served + 1
    /\ UNCHANGED <<streamVars, lastRemaining, reportedZero>>

\* A call of nextPlayer() that returns players_[currentIndex_++].
NextPlayerReturns ==
    /\ ~Exhausted
    /\ currentIndex_' = currentIndex_ + 1
    /\ lastOp' = "nextPlayer"
    /\ lastPlayer' = players_[currentIndex_ + 1]
    /\ served' = served + 1
    /\ UNCHANGED <<players_, lastRemaining, reportedZero>>

\* NextPlayerThrows with the cursor advanced before the test.
NextPlayerThrowsAdvances ==
    /\ Exhausted
    /\ currentIndex_' = currentIndex_ + 1
    /\ lastOp' = "nextPlayer"
    /\ error' = "SourceExhausted"
    /\ UNCHANGED <<players_, lastRemaining, lastPlayer, served, reportedZero>>

\* A call of nextPlayer() that throws std::runtime_error.
NextPlayerThrows ==
    /\ Exhausted
    /\ lastOp' = "nextPlayer"
    /\ error' = "SourceExhausted"
    /\ UNCHANGED <<streamVars, lastRemaining, lastPlayer, served, reportedZero>>

(* ------------------------ Online::rankIncoming ------------------------ *)

\* The state at entry of rankIncoming(stream, reporting_interval) with a
\* positive interval, the stream freshly constructed from a vector.
Init ==
    /\ players_ \in Streams
    /\ currentIndex_ = 0
    /\ reporting_interval \in 1..MaxR
    /\ topPlayers = << >>
    /\ cutoffs = EmptyMap
    /\ playerCount = 0
    /\ next = NoPlayer
    /\ pc = "prime_check"
    /\ top_ = << >>
    /\ cutoffs_ = EmptyMap
    /\ error = "none"
    /\ ub = {}
    /\ lastOp = "none"
    /\ lastRemaining = -1
    /\ lastPlayer = NoPlayer
    /\ served = 0
    /\ reportedZero = FALSE
    /\ OfflineIdle

\* PrimeCheck without the remaining() test.
PrimeCheckUnchecked ==
    /\ pc = "prime_check"
    /\ pc' = IF playerCount < reporting_interval THEN "prime_next" ELSE "make_heap"
    /\ UNCHANGED <<streamVars, logVars, rankVars, error>>
    /\ UNCHANGED offVars

\* line 190: while (playerCount < reporting_interval && stream.remaining() > 0)
PrimeCheck ==
    /\ pc = "prime_check"
    /\ IF playerCount < reporting_interval
       THEN /\ CallRemaining
            /\ pc' = IF Remaining > 0 THEN "prime_next" ELSE "make_heap"
       ELSE /\ pc' = "make_heap"
            /\ UNCHANGED <<streamVars, logVars>>
    /\ UNCHANGED <<rankVars, error>>
    /\ UNCHANGED offVars

\* lines 191-192: topPlayers.push_back(stream.nextPlayer()); playerCount++;
PrimeNext ==
    /\ pc = "prime_next"
    /\ \/ /\ NextPlayerReturns
          /\ topPlayers' = Append(topPlayers, players_[currentIndex_ + 1])
          /\ playerCount' = playerCount + 1
          /\ pc' = "prime_check"
          /\ UNCHANGED error
       \/ /\ NextPlayerThrows
          /\ pc' = "thrown"
          /\ UNCHANGED <<topPlayers, playerCount>>
    /\ UNCHANGED <<reporting_interval, cutoffs, next, top_, cutoffs_, ub>>
    /\ UNCHANGED offVars

\* MakeHeapStep with the call of std::make_heap left out.
MakeHeapStepForgotten ==
    /\ pc = "make_heap"
    /\ pc' = "first_cutoff"
    /\ UNCHANGED <<streamVars, logVars, rankVars, error>>
    /\ UNCHANGED offVars

\* line 194: std::make_heap(topPlayers.begin(), topPlayers.end(), std::greater<Player>())
MakeHeapStep ==
    /\ pc = "make_heap"
    /\ topPlayers' \in MakeHeap(topPlayers)
    /\ pc' = "first_cutoff"
    /\ UNCHANGED <<streamVars, logVars, reporting_interval, cutoffs, playerCount,
                   next, top_, cutoffs_, error, ub>>
    /\ UNCHANGED offVars

\* FirstCutoff reading topPlayers.back() where the code reads front().
FirstCutoffBack ==
    /\ pc = "first_cutoff"
    /\ IF playerCount = reporting_interval /\ Len(topPlayers) > 0
       THEN cutoffs' = MapPut(cutoffs, playerCount, topPlayers[Len(topPlayers)].level)
       ELSE UNCHANGED cutoffs
    /\ pc' = "loop_check"
    /\ UNCHANGED <<streamVars, logVars, reporting_interval, topPlayers, playerCount,
                   next, top_, cutoffs_, error, ub>>
    /\ UNCHANGED offVars

\* FirstCutoff with the cutoff after the initial batch forgotten.
FirstCutoffSkipped ==
    /\ pc = "first_cutoff"
    /\ pc' = "loop_check"
    /\ UNCHANGED <<streamVars, logVars, rankVars, error>>
    /\ UNCHANGED offVars

\* lines 197-199: the cutoff after the initial batch.  topPlayers.front() on
\* an empty vector is undefined: the read traps, or yields anything.
FirstCutoff ==
    /\ pc = "first_cutoff"
    /\ IF playerCount = reporting_interval
       THEN IF Len(topPlayers) > 0
            THEN /\ cutoffs' = MapPut(cutoffs, playerCount, topPlayers[1].level)
                 /\ pc' = "loop_check"
                 /\ UNCHANGED ub
            ELSE /\ ub' = ub \cup {"emptyFront"}
                 /\ \/ /\ pc' = "crashed"
                       /\ UNCHANGED cutoffs
                    \/ /\ \E g \in Garbage : cutoffs' = MapPut(cutoffs, playerCount, g)
                       /\ pc' = "loop_check"
       ELSE /\ pc' = "loop_check"
            /\ UNCHANGED <<cutoffs, ub>>
    /\ UNCHANGED <<streamVars, logVars, reporting_interval, topPlayers, playerCount,
                   next, top_, cutoffs_, error>>
    /\ UNCHANGED offVars

\* LoopCheck stopping one player early: while (stream.remaining() > 1).
LoopCheckOffByOne ==
    /\ pc = "loop_check"
    /\ CallRemaining
    /\ pc' = IF Remaining > 1 THEN "loop_next" ELSE "final_cutoff"
    /\ UNCHANGED <<rankVars, error>>
    /\ UNCHANGED offVars

\* line 202: while (stream.remaining() > 0)
LoopCheck ==
    /\ pc = "loop_check"
    /\ CallRemaining
    /\ pc' = IF Remaining > 0 THEN "loop_next" ELSE "final_cutoff"
    /\ UNCHANGED <<rankVars, error>>
    /\ UNCHANGED offVars

\* lines 203-204: Player next = stream.nextPlayer(); playerCount++;
LoopNext ==
    /\ pc = "loop_next"
    /\ \/ /\ NextPlayerReturns
          /\ next' = players_[currentIndex_ + 1]
          /\ playerCount' = playerCount + 1
          /\ pc' = "admit"
          /\ UNCHANGED error
       \/ /\ NextPlayerThrows
          /\ pc' = "thrown"
          /\ UNCHANGED <<next, playerCount>>
    /\ UNCHANGED <<reporting_interval, topPlayers, cutoffs, top_, cutoffs_, ub>>
    /\ UNCHANGED offVars

\* Admitted with >= for >: a tie with the root is admitted.
AdmittedOnTie(rootLevel) == next.level >= rootLevel

\* Admitted with < for >: the players below the root are admitted.
AdmittedBelow(rootLevel) == next.level < rootLevel

\* The test of line 207, next.level_ > topPlayers.front().level_, with the
\* root's level read as rootLevel.
Admitted(rootLevel) == next.level > rootLevel

\* lines 207-209: admit next through replaceMin when it beats the root.
\* This is the last use of `next`, moved from or not: it is dead from here on.
Admit ==
    /\ pc = "admit"
    /\ IF Len(topPlayers) > 0
       THEN /\ topPlayers' = IF Admitted(topPlayers[1].level)
                             THEN ReplaceMin(topPlayers, next)
                             ELSE topPlayers
            /\ pc' = "record"
            /\ UNCHANGED ub
       ELSE /\ ub' = ub \cup {"emptyFront"}
            /\ \/ /\ pc' = "crashed"
                  /\ UNCHANGED topPlayers
               \/ /\ \E g \in Garbage :
                        topPlayers' = IF Admitted(g)
                                      THEN ReplaceMin(topPlayers, next)
                                      ELSE topPlayers
                  /\ pc' = "record"
    /\ next' = NoPlayer
    /\ UNCHANGED <<streamVars, logVars, reporting_interval, cutoffs, playerCount,
                   top_, cutoffs_, error>>
    /\ UNCHANGED offVars

\* The outcomes of playerCount % reporting_interval: the remainder, or, for
\* a zero divisor, what an untrapped division leaves (quotient 0, so the
\* dividend itself).
Remainders == IF reporting_interval # 0 THEN {playerCount % reporting_interval}
              ELSE {playerCount}

\* lines 212-214: the cutoff at each multiple of the interval.
RecordCutoff ==
    /\ pc = "record"
    /\ ub' = IF reporting_interval = 0 THEN ub \cup {"modByZero"} ELSE ub
    /\ \/ /\ reporting_interval = 0
          /\ pc' = "crashed"
          /\ UNCHANGED cutoffs
       \/ /\ \E r \in Remainders :
                IF r = 0
                THEN cutoffs' = MapPut(cutoffs, playerCount, topPlayers[1].level)
                ELSE UNCHANGED cutoffs
          /\ pc' = "loop_check"
    /\ UNCHANGED <<streamVars, logVars, reporting_interval, topPlayers, playerCount,
                   next, top_, cutoffs_, error>>
    /\ UNCHANGED offVars

\* FinalCutoff without its test: the final cutoff is always recorded.
FinalCutoffAlways ==
    /\ pc = "final_cutoff"
    /\ IF Len(topPlayers) > 0
       THEN /\ cutoffs' = MapPut(cutoffs, playerCount, topPlayers[1].level)
            /\ pc' = "sort"
            /\ UNCHANGED ub
       ELSE /\ ub' = ub \cup {"emptyFront"}
            /\ \/ /\ pc' = "crashed"
                  /\ UNCHANGED cutoffs
               \/ /\ \E g \in Garbage : cutoffs' = MapPut(cutoffs, playerCount, g)
                  /\ pc' = "sort"
    /\ UNCHANGED <<streamVars, logVars, reporting_interval, topPlayers, playerCount,
                   next, top_, cutoffs_, error>>
    /\ UNCHANGED offVars

\* lines 218-220: the final cutoff when the count is no multiple of the interval.
FinalCutoff ==
    /\ pc = "final_cutoff"
    /\ IF reporting_interval = 0
       THEN \/ /\ ub' = ub \cup {"modByZero"}
               /\ pc' = "crashed"
               /\ UNCHANGED cutoffs
            \/ /\ \E r \in Remainders :
                     IF r # 0
                     THEN /\ ub' = ub \cup {"modByZero", "emptyFront"}
                          /\ \/ /\ pc' = "crashed"
                                /\ UNCHANGED cutoffs
                             \/ /\ \E g \in Garbage :
                                      cutoffs' = MapPut(cutoffs, playerCount, g)
                                /\ pc' = "sort"
                     ELSE /\ ub' = ub \cup {"modByZero"}
                          /\ pc' = "sort"
                          /\ UNCHANGED cutoffs
       ELSE /\ \E r \in Remainders :
                  IF r # 0
                  THEN cutoffs' = MapPut(cutoffs, playerCount, topPlayers[1].level)
                  ELSE UNCHANGED cutoffs
            /\ pc' = "sort"
            /\ UNCHANGED ub
    /\ UNCHANGED <<streamVars, logVars, reporting_interval, topPlayers, playerCount,
                   next, top_, cutoffs_, error>>
    /\ UNCHANGED offVars

\* lines 223-228: std::sort(topPlayers.begin(), topPlayers.end());
\* return RankingResult(topPlayers, cutoffs, elapsed);
SortAndReturn ==
    /\ pc = "sort"
    /\ \E sorted \in Sort(topPlayers) :
          /\ topPlayers' = sorted
          /\ top_' = sorted
    /\ cutoffs_' = cutoffs
    /\ pc' = "done"
    /\ UNCHANGED <<streamVars, logVars, reporting_interval, cutoffs, playerCount,
                   next, error, ub>>
    /\ UNCHANGED offVars

Next ==
    \/ PrimeCheck
    \/ PrimeNext
    \/ MakeHeapStep
    \/ FirstCutoff
    \/ LoopCheck
    \/ LoopNext
    \/ Admit
    \/ RecordCutoff
    \/ FinalCutoff
    \/ SortAndReturn

Spec == Init /\ [][Next]_vars

\* The call is synchronous and single-threaded: a step that can be taken is taken.
FairSpec == Spec /\ WF_vars(Next)

\* The call has left rankIncoming.
Finished == pc \in {"done", "thrown", "crashed"}

TypeOK ==
    /\ players_ \in Streams
    /\ currentIndex_ \in 0..Len(players_)
    /\ reporting_interval \in 0..MaxR
    /\ playerCount \in 0..MaxStream
    /\ Len(topPlayers) <= MaxStream
    /\ IsMinHeap(topPlayers) \/ pc \in {"prime_check", "prime_next", "make_heap", "done"}
    /\ error \in {"none", "SourceExhausted", "SourceFailure"}
    /\ ub \subseteq {"emptyFront", "modByZero"}
    /\ lastOp \in {"none", "remaining", "nextPlayer"}
    /\ served \in 0..MaxStream
    /\ reportedZero \in BOOLEAN

(* ------------------------ a reporting interval of 0 ------------------- *)

\* Entry of rankIncoming(stream, 0).
InitZero ==
    /\ players_ \in Streams
    /\ currentIndex_ = 0
    /\ reporting_interval = 0
    /\ topPlayers = << >>
    /\ cutoffs = EmptyMap
    /\ playerCount = 0
    /\ next = NoPlayer
    /\ pc = "prime_check"
    /\ top_ = << >>
    /\ cutoffs_ = EmptyMap
    /\ error = "none"
    /\ ub = {}
    /\ lastOp = "none"
    /\ lastRemaining = -1
    /\ lastPlayer = NoPlayer
    /\ served = 0
    /\ reportedZero = FALSE
    /\ OfflineIdle

\* The steps of rankIncoming an interval of 0 can reach: playerCount < 0 is
\* false, so the body of the priming loop (PrimeNext) is not among them.
NextZero ==
    \/ PrimeCheck
    \/ MakeHeapStep
    \/ FirstCutoff
    \/ LoopCheck
    \/ LoopNext
    \/ Admit
    \/ RecordCutoff
    \/ FinalCutoff
    \/ SortAndReturn

SpecZero == InitZero /\ [][NextZero]_vars

(* ------------------- a source that fails to produce ------------------- *)

\* NextPlayerFails with the exception caught inside the loop and the call
\* carried on to its return.
NextPlayerFailsSwallowed ==
    /\ pc \in {"prime_next", "loop_next"}
    /\ ~Exhausted
    /\ lastOp' = "nextPlayer"
    /\ error' = "SourceFailure"
    /\ pc' = IF pc = "prime_next" THEN "make_heap" ELSE "final_cutoff"
    /\ UNCHANGED <<streamVars, rankVars, lastRemaining, lastPlayer, served, reportedZero>>
    /\ UNCHANGED offVars

\* lines 191 and 203 with a PlayerStream whose nextPlayer() throws although
\* remaining() reported players: rankIncoming has no handler, the exception
\* unwinds the call.
NextPlayerFails ==
    /\ pc \in {"prime_next", "loop_next"}
    /\ ~Exhausted
    /\ lastOp' = "nextPlayer"
    /\ error' = "SourceFailure"
    /\ pc' = "thrown"
    /\ UNCHANGED <<streamVars, rankVars, lastRemaining, lastPlayer, served, reportedZero>>
    /\ UNCHANGED offVars

NextFaulty ==
    \/ Next
    \/ NextPlayerFails

SpecFaulty == Init /\ [][NextFaulty]_vars

(* ---------------- VectorPlayerStream under any caller ----------------- *)

\* After VectorPlayerStream(players): players_ = players, currentIndex_ = 0.
InitStream ==
    /\ players_ \in Streams
    /\ currentIndex_ = 0
    /\ reporting_interval = 1
    /\ topPlayers = << >>
    /\ cutoffs = EmptyMap
    /\ playerCount = 0
    /\ next = NoPlayer
    /\ pc = "client"
    /\ top_ = << >>
    /\ cutoffs_ = EmptyMap
    /\ error = "none"
    /\ ub = {}
    /\ lastOp = "none"
    /\ lastRemaining = -1
    /\ lastPlayer = NoPlayer
    /\ served = 0
    /\ reportedZero = FALSE
    /\ OfflineIdle

\* The caller calls remaining().
ClientRemaining ==
    /\ pc = "client"
    /\ CallRemaining
    /\ UNCHANGED <<rankVars, pc, error>>
    /\ UNCHANGED offVars

\* The caller calls nextPlayer() and catches what it throws; error is the
\* outcome of the latest call.
ClientNextPlayer ==
    /\ pc = "client"
    /\ \/ /\ NextPlayerReturns
          /\ error' = "none"
       \/ NextPlayerThrows
    /\ UNCHANGED <<rankVars, pc>>
    /\ UNCHANGED offVars

NextStream ==
    \/ ClientRemaining
    \/ ClientNextPlayer

SpecStream == InitStream /\ [][NextStream]_vars

(* ---------------------- Online::replaceMin alone ---------------------- *)

\* The min-heaps of at most n players; the player at code index i is named i + 1.
MinHeaps(n) == {h \in {MakePlayers(ls) : ls \in LevelSeqs(n)} : IsMinHeap(h)}

\* Entry of replaceMin(first, last, target) on a range that meets its @pre.
InitReplaceMin ==
    /\ players_ = << >>
    /\ currentIndex_ = 0
    /\ reporting_interval = 1
    /\ topPlayers \in MinHeaps(MaxHeap)
    /\ cutoffs = EmptyMap
    /\ playerCount = 0
    /\ \E l \in Levels : next = [name |-> Len(topPlayers) + 1, level |-> l]
    /\ pc = "rm_call"
    /\ top_ = << >>
    /\ cutoffs_ = EmptyMap
    /\ error = "none"
    /\ ub = {}
    /\ lastOp = "none"
    /\ lastRemaining = -1
    /\ lastPlayer = NoPlayer
    /\ served = 0
    /\ reportedZero = FALSE
    /\ OfflineIdle

\* lines 119-148: the whole call; an empty range returns before the move.
ReplaceMinCall ==
    /\ pc = "rm_call"
    /\ topPlayers' = ReplaceMin(topPlayers, next)
    /\ IF Len(topPlayers) = 0 THEN UNCHANGED next ELSE next' \in MovedFrom(next)
    /\ pc' = "rm_done"
    /\ UNCHANGED <<streamVars, logVars, reporting_interval, cutoffs, playerCount,
                   top_, cutoffs_, error, ub>>
    /\ UNCHANGED offVars

NextReplaceMin ==
    \/ ReplaceMinCall

SpecReplaceMin == InitReplaceMin /\ [][NextReplaceMin]_vars

(* ------------------- rankIncoming on one given stream ----------------- *)

ScenarioLevels == <<5, 9, 2, 8, 1, 7, 3, 10, 4, 6>>

\* rankIncoming(stream, R) is called on a stream over the ten players whose
\* levels are ScenarioLevels, with R from 1 to MaxR.
InitScenario ==
    /\ players_ = MakePlayers(ScenarioLevels)
    /\ currentIndex_ = 0
    /\ reporting_interval \in 1..MaxR
    /\ topPlayers = << >>
    /\ cutoffs = EmptyMap
    /\ playerCount = 0
    /\ next = NoPlayer
    /\ pc = "prime_check"
    /\ top_ = << >>
    /\ cutoffs_ = EmptyMap
    /\ error = "none"
    /\ ub = {}
    /\ lastOp = "none"
    /\ lastRemaining = -1
    /\ lastPlayer = NoPlayer
    /\ served = 0
    /\ reportedZero = FALSE
    /\ OfflineIdle

SpecScenario == InitScenario /\ [][Next]_vars

(* ------------------- Offline::quickSelectRank, heapRank --------------- *)

\* (totalPlayers + 9) / 10 with the quotient rounded down.
TopCountFloor(totalPlayers) == totalPlayers \div 10

\* lines 39 and 73: size_t topCount = (totalPlayers + 9) / 10.
TopCount(totalPlayers) == (totalPlayers + 9) \div 10

\* s with one occurrence of x taken out.
RemoveOne(s, x) ==
    LET k == CHOOSE k \in 1..Len(s) : s[k] = x
    IN  SubSeq(s, 1, k - 1) \o SubSeq(s, k + 1, Len(s))

\* All rearrangements of a sequence, as Perms, built front to back.
RECURSIVE Arrangements(_)
Arrangements(s) ==
    IF Len(s) = 0 THEN {<< >>}
    ELSE UNION {{<<x>> \o t : t \in Arrangements(RemoveOne(s, x))} :
                   x \in {s[k] : k \in 1..Len(s)}}

\* NthElement with nothing guaranteed about the result's order.
NthElementLoose(s, nth) == Arrangements(s)

\* NthElement by a partition that copies the last player over the first
\* where it should swap them.
NthElementOverwrites(s, nth) ==
    {IF Len(t) = 0 THEN t ELSE [t EXCEPT ![1] = t[Len(t)]] : t \in Arrangements(s)}

\* The orders a full sort by level may leave s in.
RECURSIVE Sorts(_)
Sorts(s) ==
    IF Len(s) = 0 THEN {<< >>}
    ELSE UNION {{<<x>> \o t : t \in Sorts(RemoveOne(s, x))} :
                   x \in {y \in {s[k] : k \in 1..Len(s)} :
                            \A k \in 1..Len(s) : ~PlayerLess(s[k], y)}}

\* std::nth_element(first, first + nth, last): some rearrangement in which
\* no player from position nth on is less than one before it, and the
\* player at nth is the one a full sort would put there.
NthElement(s, nth) ==
    UNION {{a \o b : <<a, b>> \in
               Arrangements(SubSeq(o, 1, nth)) \X
               {c \in Arrangements(SubSeq(o, nth + 1, Len(o))) :
                   \A k \in 1..Len(c) : ~PlayerLess(c[k], c[1])}} :
           o \in Sorts(s)}

\* The max-heaps that extend the max-heap h by the players of rest; the
\* parent of code index n is (n - 1) / 2.
RECURSIVE HeapFill(_, _)
HeapFill(h, rest) ==
    IF Len(rest) = 0 THEN {h}
    ELSE UNION {HeapFill(Append(h, x), RemoveOne(rest, x)) :
                   x \in {y \in {rest[k] : k \in 1..Len(rest)} :
                            \/ Len(h) = 0
                            \/ ~PlayerLess(h[((Len(h) - 1) \div 2) + 1], y)}}

\* std::make_heap(first, last): some rearrangement of the range that is a
\* max-heap; which one is the library's choice.
MakeMaxHeap(s) == HeapFill(<< >>, s)

\* PopHeap over the whole vector whatever n: the `- i` of line 81 left out.
PopHeapWholeRange(s, n) ==
    {h \o <<s[1]>> : h \in MakeMaxHeap(SubSeq(s, 2, Len(s)))}

\* std::pop_heap(first, first + n) on a non-empty max-heap: the old root goes
\* to position n - 1, the other players of the range form some max-heap
\* before it, and what follows the range stays.
PopHeap(s, n) ==
    {h \o <<s[1]>> \o SubSeq(s, n + 1, Len(s)) : h \in MakeMaxHeap(SubSeq(s, 2, n))}

OffLevels == 1..MaxOffLevel

\* Players that differ in level only: no Offline function reads a name.
Anonymous(levels) == [k \in 1..Len(levels) |-> [name |-> 1, level |-> levels[k]]]

\* The sequences of n levels in non-increasing order.
RECURSIVE Descending(_)
Descending(n) ==
    IF n = 0 THEN {<< >>}
    ELSE {Append(t, l) : <<t, l>> \in
             {<<t, l>> \in Descending(n - 1) \X OffLevels : n = 1 \/ l <= t[n - 1]}}

\* The collections handed in: every multiset of at most MaxN levels, in
\* non-increasing order.  The first step of either function is a library
\* call whose outcomes depend on the multiset only, so other orders of the
\* same players reach the same states.
Collections == {Anonymous(ls) : ls \in UNION {Descending(n) : n \in 0..MaxN}}

\* The caller has built a collection and calls quickSelectRank(players).
InitOffline ==
    /\ players_ = << >>
    /\ currentIndex_ = 0
    /\ reporting_interval = 1
    /\ topPlayers = << >>
    /\ cutoffs = EmptyMap
    /\ playerCount = 0
    /\ next = NoPlayer
    /\ pc = "qs_call"
    /\ top_ = << >>
    /\ cutoffs_ = EmptyMap
    /\ error = "none"
    /\ ub = {}
    /\ lastOp = "none"
    /\ lastRemaining = -1
    /\ lastPlayer = NoPlayer
    /\ served = 0
    /\ reportedZero = FALSE
    /\ input \in Collections
    /\ players = input
    /\ hr_i = 0
    /\ quickResult = [top |-> << >>, cutoffs |-> EmptyMap]

onlineVars == <<streamVars, logVars, reporting_interval, cutoffs, playerCount, next,
                error, ub>>

\* lines 38-53: std::nth_element(players.begin(), players.end() - topCount,
\* players.end()); copy the trailing topCount players; sort them; return
\* RankingResult(topPlayers, {}, elapsed).
QuickSelectRank ==
    /\ pc = "qs_call"
    /\ \E arranged \in NthElement(players, Len(players) - TopCount(Len(players))) :
          /\ players' = arranged
          /\ \E sorted \in Sort(SubSeq(arranged,
                                        Len(arranged) - TopCount(Len(players)) + 1,
                                        Len(arranged))) :
                /\ topPlayers' = sorted
                /\ top_' = sorted
    /\ cutoffs_' = EmptyMap
    /\ pc' = "qs_done"
    /\ UNCHANGED <<onlineVars, input, hr_i, quickResult>>

\* lines 69-73: the caller keeps quickSelectRank's result and calls
\* heapRank(players) on a fresh copy of the same collection.
HeapRankEnter ==
    /\ pc = "qs_done"
    /\ quickResult' = [top |-> top_, cutoffs |-> cutoffs_]
    /\ players' = input
    /\ topPlayers' = << >>
    /\ top_' = << >>
    /\ cutoffs_' = EmptyMap
    /\ hr_i' = 0
    /\ pc' = "hr_make"
    /\ UNCHANGED <<onlineVars, input>>

\* lines 76-79: std::make_heap(players.begin(), players.end())
HeapRankMakeHeap ==
    /\ pc = "hr_make"
    /\ players' \in MakeMaxHeap(players)
    /\ pc' = "hr_loop"
    /\ UNCHANGED <<onlineVars, topPlayers, top_, cutoffs_, input, hr_i, quickResult>>

\* lines 80-83: one turn of the loop: std::pop_heap(players.begin(),
\* players.end() - i); topPlayers.push_back(players[players.size() - 1 - i]).
HeapRankPop ==
    /\ pc = "hr_loop"
    /\ hr_i < TopCount(Len(players))
    /\ \E popped \in PopHeap(players, Len(players) - hr_i) :
          /\ players' = popped
          /\ topPlayers' = Append(topPlayers, popped[Len(players) - hr_i])
    /\ hr_i' = hr_i + 1
    /\ UNCHANGED <<onlineVars, pc, top_, cutoffs_, input, quickResult>>

\* lines 80 and 86-91: the loop is over; sort and return
\* RankingResult(topPlayers, {}, elapsed).
HeapRankSortReturn ==
    /\ pc = "hr_loop"
    /\ ~(hr_i < TopCount(Len(players)))
    /\ \E sorted \in Sort(topPlayers) :
          /\ topPlayers' = sorted
          /\ top_' = sorted
    /\ cutoffs_' = EmptyMap
    /\ pc' = "hr_done"
    /\ UNCHANGED <<onlineVars, players, input, hr_i, quickResult>>

NextOffline ==
    \/ QuickSelectRank
    \/ HeapRankEnter
    \/ HeapRankMakeHeap
    \/ HeapRankPop
    \/ HeapRankSortReturn

SpecOffline == InitOffline /\ [][NextOffline]_vars

(* ------------------------ reference notions --------------------------- *)

Min(a, b) == IF a < b THEN a ELSE b

Total == Len(players_)

Prefix(s, c) == SubSeq(s, 1, c)

\* The k-th highest level among the players of s (1 <= k <= Len(s)): the
\* level v with fewer than k players above it and at least k at or above it.
KthHighest(s, k) ==
    CHOOSE v \in {s[i].level : i \in 1..Len(s)} :
        /\ Cardinality({i \in 1..Len(s) : s[i].level > v}) < k
        /\ Cardinality({i \in 1..Len(s) : s[i].level >= v}) >= k

\* t holds, in non-decreasing order, exactly the Len(t) highest levels of s.
IsTopOf(t, s) ==
    /\ Len(t) <= Len(s)
    /\ \A j \in 1..Len(t) : t[j].level = KthHighest(s, Len(t) - j + 1)
    /\ \A j \in 1..(Len(t) - 1) : t[j].level <= t[j + 1].level

Returned == pc = "done" /\ reporting_interval >= 1

(* ------------------------------ claims -------------------------------- *)

\* C1: for R >= 1 the returned top has length min(R, total) and holds the
\* min(R, total) highest levels of the whole stream in non-decreasing order.
C1_TopIsTopR ==
    Returned =>
        /\ Len(top_) = Min(reporting_interval, Total)
        /\ IsTopOf(top_, players_)

C1_Witness ==
    /\ Returned
    /\ reporting_interval = 2
    /\ Total = 4
    /\ top_[1].level < top_[2].level
    /\ top_[1].name > 2
    /\ \E i \in 3..4 : players_[i].level < top_[1].level

\* C2: for R >= 1 every returned cutoff, under key c, is the lowest level
\* among the min(R, c) highest-level players of the first c players.
C2_CutoffValues ==
    Returned =>
        \A c \in DOMAIN cutoffs_ :
            /\ c \in 1..Total
            /\ cutoffs_[c] = KthHighest(Prefix(players_, c), Min(reporting_interval, c))

C2_Witness ==
    /\ Returned
    /\ reporting_interval = 2
    /\ DOMAIN cutoffs_ = {2, 4}
    /\ cutoffs_[2] < cutoffs_[4]
    /\ players_[4].level < cutoffs_[4]

\* C3: for R >= 1 the returned cutoffs have exactly the keys R, 2R, ... up
\* to total, and total itself; 0 is never a key.
C3_CutoffKeys ==
    Returned =>
        DOMAIN cutoffs_ = {c \in 1..Total : c % reporting_interval = 0 \/ c = Total}

C3_Witness ==
    /\ Returned
    /\ reporting_interval = 3
    /\ Total = 4
    /\ DOMAIN cutoffs_ = {3, 4}

\* C4 (as claimed): with R = 0 the call is rejected with InvalidInterval; no
\* root of an empty leaderboard is read and no modulo by zero is executed.
C4_ZeroIntervalRejected ==
    reporting_interval = 0 =>
        /\ ub = {}
        /\ (Finished => error = "InvalidInterval")

\* C5: for R >= 1 an empty stream yields an empty top and empty cutoffs, with
\* no error and no read of the root of the empty leaderboard.
C5_EmptyStream ==
    (reporting_interval >= 1 /\ Total = 0) =>
        /\ ub = {}
        /\ error = "none"
        /\ pc \notin {"thrown", "crashed", "prime_next", "loop_next", "admit", "record"}
        /\ Len(topPlayers) = 0
        /\ cutoffs = EmptyMap
        /\ (pc = "done" => top_ = << >> /\ cutoffs_ = EmptyMap)

C5_Witness ==
    /\ Returned
    /\ Total = 0
    /\ reporting_interval = 2
    /\ lastOp = "remaining"

\* C6: for R >= 1 every nextPlayer() call directly follows a remaining()
\* call that returned more than 0, no remaining() call has returned 0 before
\* it, and it does not throw.
C6_RemainingBeforeNext ==
    [][(reporting_interval >= 1 /\ (served' # served \/ error' # error)) =>
           /\ lastOp = "remaining"
           /\ lastRemaining > 0
           /\ ~reportedZero
           /\ served' = served + 1
           /\ error' = "none"]_vars

C6_Witness ==
    /\ reporting_interval = 2
    /\ pc = "admit"
    /\ lastOp = "nextPlayer"
    /\ lastRemaining = 1
    /\ served = 4
    /\ Total = 4

\* C7: for R >= 1 the call returns, and when it has returned the stream has
\* nothing remaining and the players counted are all the stream's players.
C7_Terminates ==
    /\ (reporting_interval >= 1) ~> (pc = "done")
    /\ [](Returned => Remaining = 0 /\ playerCount = Total /\ served = Total)

C7_Witness ==
    /\ Returned
    /\ Total = 4
    /\ Remaining = 0
    /\ playerCount = 4
    /\ reporting_interval = 3

\* C8: when nextPlayer() fails although remaining() reported players, the
\* failure leaves the call: the failed call is the last made on the stream,
\* nothing more is read or computed, and no result is returned.
C8_FailurePropagates ==
    /\ [](error = "SourceFailure" =>
             /\ pc = "thrown"
             /\ lastOp = "nextPlayer"
             /\ top_ = << >>
             /\ cutoffs_ = EmptyMap)
    /\ [][pc = "thrown" => pc' = "thrown"]_vars
    /\ [][(error' = "SourceFailure" /\ error = "none") =>
              (lastRemaining > 0 /\ UNCHANGED <<streamVars, rankVars, served>>)]_vars

C8_Witness ==
    /\ error = "SourceFailure"
    /\ pc = "thrown"
    /\ reporting_interval = 2
    /\ playerCount = 3
    /\ Remaining = 1
    /\ DOMAIN cutoffs = {2}

\* C9: nextPlayer() throws exactly when remaining() is 0 at the call, and a
\* throwing call leaves players_ and currentIndex_ as they were, so
\* remaining() stays 0.
C9_ThrowsIffExhausted ==
    [][(lastOp' = "nextPlayer") =>
           /\ (error' = "SourceExhausted") <=> (Remaining = 0)
           /\ (error' = "SourceExhausted") =>
                 (UNCHANGED <<streamVars, served, lastPlayer>> /\ Remaining' = 0)
           /\ (Remaining = 0) => (Remaining' = 0)]_vars

C9_Witness ==
    /\ pc = "client"
    /\ error = "SourceExhausted"
    /\ lastOp = "nextPlayer"
    /\ Total = 3
    /\ served = 3
    /\ Remaining = 0

\* C10: replaceMin on a min-heap of size >= 1 leaves a min-heap of the same
\* size holding the old players with the old root replaced by the target.
C10_ReplaceMinKeepsHeap ==
    [][(pc = "rm_call" /\ Len(topPlayers) >= 1) =>
           /\ IsMinHeap(topPlayers')
           /\ Len(topPlayers') = Len(topPlayers)
           /\ SamePlayers(topPlayers', [topPlayers EXCEPT ![1] = next])]_vars

C10_Witness ==
    /\ pc = "rm_done"
    /\ Len(topPlayers) >= 4
    /\ \E i \in 4..Len(topPlayers) : topPlayers[i].name = Len(topPlayers) + 1
    /\ IsMinHeap(topPlayers)

\* The levels of a sequence of players, in order.
LevelsOf(s) == [k \in 1..Len(s) |-> s[k].level]

\* C11: for every collection of N >= 0 players quickSelectRank returns a top
\* of length (N + 9) div 10 holding exactly the (N + 9) div 10 highest
\* levels of the input in non-decreasing order; for N = 0 the top is empty
\* and nothing is thrown.
C11_QuickSelectTop ==
    pc = "qs_done" =>
        /\ Len(top_) = (Len(input) + 9) \div 10
        /\ IsTopOf(top_, input)
        /\ error = "none"
        /\ (Len(input) = 0) => (top_ = << >>)

C11_Witness ==
    /\ pc = "qs_done"
    /\ Len(input) = 11
    /\ LevelsOf(top_) = <<1, 2>>
    /\ players # input

\* C12: for every collection of N >= 0 players heapRank returns a top of
\* length (N + 9) div 10 holding exactly the (N + 9) div 10 highest levels
\* of the input in non-decreasing order; the pop with loop index i leaves
\* at index N - 1 - i the (i+1)-th largest of the input, and that player is
\* the one copied.
C12_HeapRankTop ==
    [][/\ (pc = "hr_loop" /\ hr_i' = hr_i + 1) =>
             /\ players'[Len(input) - hr_i].level = KthHighest(input, hr_i + 1)
             /\ topPlayers' = Append(topPlayers, players'[Len(input) - hr_i])
       /\ (pc' = "hr_done") =>
             /\ Len(top_') = (Len(input) + 9) \div 10
             /\ IsTopOf(top_', input)
             /\ error' = "none"]_vars

C12_Witness ==
    /\ pc = "hr_done"
    /\ Len(input) = 11
    /\ hr_i = 2
    /\ LevelsOf(top_) = <<2, 2>>
    /\ LevelsOf(input) # LevelsOf(players)

\* C13: on copies of the same input, duplicates and the empty input
\* included, quickSelectRank and heapRank return tops with the same sequence
\* of levels, and both return empty cutoffs.
C13_SelectorsAgree ==
    pc = "hr_done" =>
        /\ LevelsOf(quickResult.top) = LevelsOf(top_)
        /\ DOMAIN quickResult.cutoffs = {}
        /\ DOMAIN cutoffs_ = {}

C13_Witness ==
    /\ pc = "hr_done"
    /\ Len(input) = 11
    /\ LevelsOf(quickResult.top) = <<1, 2>>
    /\ LevelsOf(top_) = <<1, 2>>

\* C14: when quickSelectRank or heapRank has returned, the caller's
\* collection has its original length and holds each original player as
\* often as before; only the order may differ.
C14_InputPermuted ==
    pc \in {"qs_done", "hr_done"} =>
        /\ Len(players) = Len(input)
        /\ SamePlayers(players, input)

C14_Witness ==
    /\ pc = "hr_done"
    /\ Len(input) = 11
    /\ players # input
    /\ SamePlayers(players, input)
    /\ LevelsOf(top_) = <<1, 2>>

\* The scenario's stream ranked with R = 3.
ScenarioRun == players_ = MakePlayers(ScenarioLevels) /\ reporting_interval = 3

\* C15 as stated: on the stream 5, 9, 2, 8, 1, 7, 3, 10, 4, 6 with R = 3 the
\* leaderboard is primed with 5, 9, 2 and the cutoff recorded under key 3
\* is 5, the root after admitting 8.
C15_CutoffAtThreeIsFive ==
    ScenarioRun =>
        /\ (pc = "make_heap") => (LevelsOf(topPlayers) = <<5, 9, 2>>)
        /\ (3 \in DOMAIN cutoffs) => (cutoffs[3] = 5)
        /\ (pc = "done") => (3 \in DOMAIN cutoffs_ /\ cutoffs_[3] = 5)

\* C15, amended: on that stream with R = 3 the leaderboard is primed with
\* 5, 9, 2 and the cutoff recorded under key 3 is 2, the root right after
\* priming; 8 is the fourth player, and the root is 5 once it is admitted,
\* when the count is 4 and nothing is recorded.
C15_CutoffAtThreeIsTwo ==
    ScenarioRun =>
        /\ (pc = "make_heap") => (LevelsOf(topPlayers) = <<5, 9, 2>>)
        /\ (3 \in DOMAIN cutoffs) => (cutoffs[3] = 2)
        /\ (pc = "done") => (3 \in DOMAIN cutoffs_ /\ cutoffs_[3] = 2)
        /\ (pc = "admit" /\ next.level = 8) => (playerCount = 4 /\ topPlayers[1].level = 2)
        /\ (pc = "record" /\ playerCount = 4) =>
              (topPlayers[1].level = 5 /\ DOMAIN cutoffs = {3})
        /\ (pc = "loop_check" /\ playerCount = 4) => (DOMAIN cutoffs = {3})

C15_Witness ==
    /\ ScenarioRun
    /\ pc = "done"
    /\ LevelsOf(top_) = <<8, 9, 10>>
    /\ 3 \in DOMAIN cutoffs_
    /\ cutoffs_[3] = 2

\* p is one of the players of s.
Holds(s, p) == \E k \in 1..Len(s) : s[k] = p

\* C16: after priming, an incoming player is admitted through replaceMin
\* exactly when its level is strictly greater than the root's; a player at
\* or below the root's level leaves the buffer as it was, and over its
\* whole turn only the count, and possibly cutoffs, change.
C16_AdmitIffAboveRoot ==
    [][/\ (pc = "admit") =>
             /\ (next.level > topPlayers[1].level) <=> Holds(topPlayers', next)
             /\ (next.level > topPlayers[1].level) =>
                    SamePlayers(topPlayers', [topPlayers EXCEPT ![1] = next])
             /\ (next.level <= topPlayers[1].level) => (topPlayers' = topPlayers)
             /\ UNCHANGED <<cutoffs, playerCount>>
       /\ (pc = "loop_next") => (topPlayers' = topPlayers /\ cutoffs' = cutoffs)
       /\ (pc = "record") => (topPlayers' = topPlayers /\ playerCount' = playerCount)]_vars

C16_Witness ==
    /\ pc = "record"
    /\ playerCount > reporting_interval
    /\ lastPlayer.level = topPlayers[1].level
    /\ ~Holds(topPlayers, lastPlayer)
    /\ Len(topPlayers) = 2

\* C17: with R >= 1 the buffer never holds more than R players; once
\* priming is over its length is min(R, total), and admissions, discards
\* and cutoff recordings all leave that length alone.
C17_BufferLength ==
    /\ Len(topPlayers) <= reporting_interval
    /\ Len(top_) <= reporting_interval
    /\ (pc \notin {"prime_check", "prime_next"}) =>
          Len(topPlayers) = Min(reporting_interval, Total)
    /\ (pc = "done") => (Len(top_) = Min(reporting_interval, Total))

C17_Witness ==
    /\ pc = "record"
    /\ Total = 4
    /\ reporting_interval = 2
    /\ playerCount = 4
    /\ Len(topPlayers) = 2
    /\ Holds(topPlayers, lastPlayer)
    /\ Holds(topPlayers, players_[3])

\* The buffer is about to have its root read.
RootRead ==
    \/ pc = "first_cutoff" /\ playerCount = reporting_interval
    \/ pc = "admit"
    \/ pc = "record" /\ playerCount % reporting_interval = 0
    \/ pc = "final_cutoff" /\ playerCount % reporting_interval # 0

\* C18: with R >= 1, wherever the root is read (the admission test, each
\* cutoff recording, the final cutoff) the buffer is non-empty and a
\* min-heap, so the root's level is the least in the buffer; the same holds
\* after every admission and every discard.
C18_RootReadOnMinHeap ==
    (RootRead \/ pc = "record") =>
        /\ Len(topPlayers) > 0
        /\ IsMinHeap(topPlayers)
        /\ \A k \in 1..Len(topPlayers) : topPlayers[1].level <= topPlayers[k].level

C18_Witness ==
    /\ pc = "final_cutoff"
    /\ RootRead
    /\ reporting_interval = 3
    /\ playerCount = 4
    /\ Holds(topPlayers, players_[4])
    /\ topPlayers[2].level > topPlayers[3].level
    /\ topPlayers[1].level < topPlayers[3].level

\* C19: with R >= 1, once the buffer is primed and heapified the root's
\* level never goes down from one step to the next, and in the cutoffs
\* returned a larger key never has a smaller value.
C19_RootNeverDecreases ==
    [][/\ (pc \notin {"prime_check", "prime_next", "make_heap"} /\ Len(topPlayers) > 0) =>
             /\ Len(topPlayers') > 0
             /\ topPlayers'[1].level >= topPlayers[1].level
       /\ \A c1, c2 \in DOMAIN cutoffs' : (c1 < c2) => (cutoffs'[c1] <= cutoffs'[c2])
       /\ (pc' = "done") =>
             \A c1, c2 \in DOMAIN cutoffs_' : (c1 < c2) => (cutoffs_'[c1] <= cutoffs_'[c2])]_vars

C19_Witness ==
    /\ pc = "done"
    /\ reporting_interval = 2
    /\ DOMAIN cutoffs_ = {2, 4}
    /\ cutoffs_[2] < cutoffs_[4]
    /\ top_[1].level = cutoffs_[4]

\* C20: for a VectorPlayerStream over a vector v, whatever calls were made,
\* remaining() plus the number of successful nextPlayer() calls is |v|;
\* remaining() changes nothing of the stream; a successful nextPlayer()
\* lowers remaining() by exactly 1, and the k-th successful call returns
\* v[k-1].
C20_StreamAccounting ==
    [][/\ Remaining + served = Len(players_)
       /\ Remaining' + served' = Len(players_')
       /\ (lastOp' = "remaining") =>
             /\ UNCHANGED <<streamVars, served>>
             /\ lastRemaining' = Remaining
             /\ Remaining' = Remaining
       /\ (lastOp' = "nextPlayer" /\ error' = "none") =>
             /\ Remaining' = Remaining - 1
             /\ served' = served + 1
             /\ players_' = players_
             /\ lastPlayer' = players_[served']]_vars

C20_Witness ==
    /\ pc = "client"
    /\ Total = 4
    /\ served = 3
    /\ lastPlayer = players_[3]
    /\ lastOp = "remaining"
    /\ lastRemaining = 1
    /\ Remaining = 1

=============================================================================
